---------------------------- MODULE Spec2Model ----------------------------
(***************************************************************************)
(* Event routing of poc_event_app: a registry of event types and handler   *)
(* classes, the in-process dispatcher, the broker publisher and the broker *)
(* listener (inject_with_kink.py), with the resolver bindings of both      *)
(* variants (kink: memoized lambda; dependency_injector: Factory).         *)
(*                                                                         *)
(* Text (str) is a sequence of code points, bytes a sequence of 0..255.     *)
(* Every call is one action: the program is single-threaded and each call  *)
(* runs to its return or to the exception that leaves it; the order of     *)
(* what a call did is kept in the trace of the call.                       *)
(***************************************************************************)
EXTENDS Integers, Sequences, FiniteSets, TLC

VARIABLES
    event_map,       \* the handler registry: an ordered dict, as a sequence of [cls, handlers]
    event_type_map,  \* the event type registry: type identifier -> event class
    startup,         \* the exception that ended initialization, or "none"
    di,              \* the resolver: its binding and its memoized instance
    services,        \* number of service instances constructed so far
    queue,           \* messages published to the broker and not yet delivered
    last,            \* the record of the last call: what was called, what it did, how it ended
    connection,      \* the broker connection of the publisher, and the channels opened on it
    publishes,       \* number of publish calls made so far
    frame            \* the dispatch call that is running, statement by statement

vars == <<event_map, event_type_map, startup, di, services, queue, last,
          connection, publishes, frame>>

-----------------------------------------------------------------------------
(* Bounds *)

\* longest message text of an event of the codec specification
MaxCodecLen == 3
\* most handler classes registered in the handler registry, all keys together
MaxRegistrations == 2
\* most messages waiting in the broker queue
MaxQueue == 1
\* most service instances constructed (a Factory binding constructs one per handler)
MaxServices == 3
\* most publish calls made
MaxPublishes == 2

-----------------------------------------------------------------------------
(* Text and bytes *)

\* code points of the message texts of the codec specification: "a", the
\* quote, the backslash, line feed, DEL, e-acute, and U+1F600 (outside the BMP).
\* All are Unicode scalar values: a str may also hold surrogate code points,
\* which no text has, and json.loads joins a high and a low one that follow
\* each other into the one character they encode.
CodecAlphabet == {97, 34, 92, 10, 127, 233, 128512}

RECURSIVE SeqsUpTo(_, _)
SeqsUpTo(S, n) ==
    IF n = 0 THEN {<<>>}
    ELSE LET shorter == SeqsUpTo(S, n - 1)
         IN  shorter \cup {Append(s, c) : s \in {t \in shorter : Len(t) = n - 1}, c \in S}

\* code point of the hexadecimal digit d, lower case ("0123456789abcdef"[d])
HexDigit(d) == IF d < 10 THEN 48 + d ELSE 87 + d

\* '{0:04x}'.format(n)
Hex4(n) ==
    << HexDigit((n \div 4096) % 16), HexDigit((n \div 256) % 16),
       HexDigit((n \div 16) % 16), HexDigit(n % 16) >>

\* value of a hexadecimal digit (either case), -1 when c is none
HexValue(c) ==
    IF c >= 48 /\ c <= 57 THEN c - 48
    ELSE IF c >= 97 /\ c <= 102 THEN c - 87
    ELSE IF c >= 65 /\ c <= 70 THEN c - 55
    ELSE -1

\* str.encode(): UTF-8 of one code point
Utf8EncodeChar(c) ==
    IF c < 128 THEN <<c>>
    ELSE IF c < 2048 THEN <<192 + (c \div 64), 128 + (c % 64)>>
    ELSE IF c < 65536 THEN <<224 + (c \div 4096), 128 + ((c \div 64) % 64), 128 + (c % 64)>>
    ELSE <<240 + (c \div 262144), 128 + ((c \div 4096) % 64),
           128 + ((c \div 64) % 64), 128 + (c % 64)>>

RECURSIVE Utf8Encode(_)
Utf8Encode(s) == IF s = <<>> THEN <<>> ELSE Utf8EncodeChar(Head(s)) \o Utf8Encode(Tail(s))

IsCont(b, i) == i <= Len(b) /\ b[i] >= 128 /\ b[i] < 192

\* bytes.decode(): UTF-8, strict; [ok, text]
RECURSIVE Utf8DecodeFrom(_, _, _)
Utf8DecodeFrom(b, i, acc) ==
    IF i > Len(b) THEN [ok |-> TRUE, text |-> acc]
    ELSE LET c == b[i] IN
         IF c < 128 THEN Utf8DecodeFrom(b, i + 1, Append(acc, c))
         ELSE IF c >= 194 /\ c < 224 /\ IsCont(b, i + 1)
         THEN Utf8DecodeFrom(b, i + 2, Append(acc, (c - 192) * 64 + (b[i + 1] - 128)))
         ELSE IF c >= 224 /\ c < 240 /\ IsCont(b, i + 1) /\ IsCont(b, i + 2)
         THEN LET v == (c - 224) * 4096 + (b[i + 1] - 128) * 64 + (b[i + 2] - 128)
              IN  IF v < 2048 \/ (v >= 55296 /\ v <= 57343)
                  THEN [ok |-> FALSE, text |-> <<>>]
                  ELSE Utf8DecodeFrom(b, i + 3, Append(acc, v))
         ELSE IF c >= 240 /\ c < 245 /\ IsCont(b, i + 1) /\ IsCont(b, i + 2) /\ IsCont(b, i + 3)
         THEN LET v == (c - 240) * 262144 + (b[i + 1] - 128) * 4096
                       + (b[i + 2] - 128) * 64 + (b[i + 3] - 128)
              IN  IF v < 65536 \/ v > 1114111
                  THEN [ok |-> FALSE, text |-> <<>>]
                  ELSE Utf8DecodeFrom(b, i + 4, Append(acc, v))
         ELSE [ok |-> FALSE, text |-> <<>>]

Utf8Decode(b) == Utf8DecodeFrom(b, 1, <<>>)

-----------------------------------------------------------------------------
(* json.dumps and json.loads, on the dicts of text to text that events are    *)
(* serialized as.  A dict is a sequence of [key, value], later keys winning. *)

\* JsonEscapeChar with the backslash left as it is
JsonEscapeCharPlainBackslash(c) ==
    IF c = 34 THEN <<92, 34>>
    ELSE IF c = 10 THEN <<92, 110>>
    ELSE IF c = 13 THEN <<92, 114>>
    ELSE IF c = 9 THEN <<92, 116>>
    ELSE IF c = 8 THEN <<92, 98>>
    ELSE IF c = 12 THEN <<92, 102>>
    ELSE IF c >= 32 /\ c <= 126 THEN <<c>>
    ELSE IF c < 65536 THEN <<92, 117>> \o Hex4(c)
    ELSE LET v == c - 65536
         IN  <<92, 117>> \o Hex4(55296 + ((v \div 1024) % 1024))
             \o <<92, 117>> \o Hex4(56320 + (v % 1024))

\* json.encoder.py_encode_basestring_ascii: one code point of a string
JsonEscapeChar(c) ==
    IF c = 34 THEN <<92, 34>>
    ELSE IF c = 92 THEN <<92, 92>>
    ELSE IF c = 10 THEN <<92, 110>>
    ELSE IF c = 13 THEN <<92, 114>>
    ELSE IF c = 9 THEN <<92, 116>>
    ELSE IF c = 8 THEN <<92, 98>>
    ELSE IF c = 12 THEN <<92, 102>>
    ELSE IF c >= 32 /\ c <= 126 THEN <<c>>
    ELSE IF c < 65536 THEN <<92, 117>> \o Hex4(c)
    ELSE LET v == c - 65536
         IN  <<92, 117>> \o Hex4(55296 + ((v \div 1024) % 1024))
             \o <<92, 117>> \o Hex4(56320 + (v % 1024))

RECURSIVE JsonEscape(_)
JsonEscape(s) == IF s = <<>> THEN <<>> ELSE JsonEscapeChar(Head(s)) \o JsonEscape(Tail(s))

JsonString(s) == <<34>> \o JsonEscape(s) \o <<34>>

RECURSIVE JsonMembers(_)
JsonMembers(d) ==
    IF d = <<>> THEN <<>>
    ELSE JsonString(d[1].key) \o <<58, 32>> \o JsonString(d[1].value)
         \o (IF Len(d) > 1 THEN <<44, 32>> ELSE <<>>) \o JsonMembers(Tail(d))

\* json.dumps(d): the default separators ", " and ": ", ensure_ascii
JsonDumps(d) == <<123>> \o JsonMembers(d) \o <<125>>

JsonFail == [ok |-> FALSE, val |-> <<>>, end |-> 0]

IsHex4(s, i) == i + 3 <= Len(s) /\ \A k \in 0..3 : HexValue(s[i + k]) >= 0

HexAt(s, i) ==
    HexValue(s[i]) * 4096 + HexValue(s[i + 1]) * 256 + HexValue(s[i + 2]) * 16 + HexValue(s[i + 3])

\* the character a one-letter escape stands for (json.decoder.BACKSLASH), -1 when none
Backslash(c) ==
    IF c = 34 THEN 34
    ELSE IF c = 92 THEN 92
    ELSE IF c = 47 THEN 47
    ELSE IF c = 98 THEN 8
    ELSE IF c = 102 THEN 12
    ELSE IF c = 110 THEN 10
    ELSE IF c = 114 THEN 13
    ELSE IF c = 116 THEN 9
    ELSE -1

\* json.decoder.py_scanstring (strict): s[i] is the first character after the opening quote
RECURSIVE ScanString(_, _, _)
ScanString(s, i, acc) ==
    IF i > Len(s) THEN JsonFail
    ELSE LET c == s[i] IN
         IF c = 34 THEN [ok |-> TRUE, val |-> acc, end |-> i + 1]
         ELSE IF c < 32 THEN JsonFail
         ELSE IF c # 92 THEN ScanString(s, i + 1, Append(acc, c))
         ELSE IF i + 1 > Len(s) THEN JsonFail
         ELSE IF s[i + 1] # 117
         THEN IF Backslash(s[i + 1]) < 0 THEN JsonFail
              ELSE ScanString(s, i + 2, Append(acc, Backslash(s[i + 1])))
         ELSE IF ~IsHex4(s, i + 2) THEN JsonFail
         ELSE LET uni == HexAt(s, i + 2) IN
              IF uni >= 55296 /\ uni <= 56319
                 /\ i + 7 <= Len(s) /\ s[i + 6] = 92 /\ s[i + 7] = 117
                 /\ IsHex4(s, i + 8)
                 /\ HexAt(s, i + 8) >= 56320 /\ HexAt(s, i + 8) <= 57343
              THEN ScanString(s, i + 12,
                     Append(acc, 65536 + (uni - 55296) * 1024 + (HexAt(s, i + 8) - 56320)))
              ELSE ScanString(s, i + 6, Append(acc, uni))

IsSpace(c) == c \in {32, 9, 10, 13}

RECURSIVE SkipSpace(_, _)
SkipSpace(s, i) == IF i <= Len(s) /\ IsSpace(s[i]) THEN SkipSpace(s, i + 1) ELSE i

\* json.decoder.JSONObject, for members whose values are strings: s[i] follows "{"
RECURSIVE ScanMembers(_, _, _)
ScanMembers(s, i, acc) ==
    LET k0 == SkipSpace(s, i) IN
    IF k0 > Len(s) \/ s[k0] # 34 THEN JsonFail
    ELSE LET key == ScanString(s, k0 + 1, <<>>) IN
         IF ~key.ok THEN JsonFail
         ELSE LET c0 == SkipSpace(s, key.end) IN
              IF c0 > Len(s) \/ s[c0] # 58 THEN JsonFail
              ELSE LET v0 == SkipSpace(s, c0 + 1) IN
                   IF v0 > Len(s) \/ s[v0] # 34 THEN JsonFail
                   ELSE LET val == ScanString(s, v0 + 1, <<>>) IN
                        IF ~val.ok THEN JsonFail
                        ELSE LET e0 == SkipSpace(s, val.end)
                                 d == Append(acc, [key |-> key.val, value |-> val.val])
                             IN  IF e0 > Len(s) THEN JsonFail
                                 ELSE IF s[e0] = 125 THEN [ok |-> TRUE, val |-> d, end |-> e0 + 1]
                                 ELSE IF s[e0] = 44 THEN ScanMembers(s, e0 + 1, d)
                                 ELSE JsonFail

\* json.loads(s) of an object of strings: [ok, val]; trailing text is "Extra data"
JsonLoads(s) ==
    LET b0 == SkipSpace(s, 1) IN
    IF b0 > Len(s) \/ s[b0] # 123 THEN JsonFail
    ELSE LET m0 == SkipSpace(s, b0 + 1)
             obj == IF m0 <= Len(s) /\ s[m0] = 125
                    THEN [ok |-> TRUE, val |-> <<>>, end |-> m0 + 1]
                    ELSE ScanMembers(s, b0 + 1, <<>>)
         IN  IF ~obj.ok THEN JsonFail
             ELSE IF SkipSpace(s, obj.end) <= Len(s) THEN JsonFail
             ELSE obj

\* d[key]: the value of the last member named key; ok is FALSE on KeyError
RECURSIVE DictGet(_, _)
DictGet(d, key) ==
    IF d = <<>> THEN [ok |-> FALSE, value |-> <<>>]
    ELSE IF d[Len(d)].key = key THEN [ok |-> TRUE, value |-> d[Len(d)].value]
    ELSE DictGet(SubSeq(d, 1, Len(d) - 1), key)

\* the text "message"
MessageKey == <<109, 101, 115, 115, 97, 103, 101>>


-----------------------------------------------------------------------------
(* Event classes.  NewMessageEvent is the class of the repository; the other *)
(* two stand for further Event subclasses a handler map may name.            *)
(* OtherEvent has a type identifier of its own.  ClashingEvent returns the   *)
(* type identifier NewMessageEvent returns, against the rule that a type    *)
(* identifier names one kind of event: it is a class the registries may be  *)
(* built from, and no class of the running system.                           *)

EventClasses == {"NewMessageEvent", "OtherEvent"}

AllClasses == EventClasses \cup {"ClashingEvent"}

\* Event.get_type()
get_type(cls) ==
    IF cls = "OtherEvent" THEN "some-proj/some-domain/other-event"
    ELSE "some-proj/some-domain/some-event"

\* Event.get_revision(): a datetime
get_revision(cls) ==
    IF cls = "OtherEvent"
    THEN [year |-> 2023, month |-> 1, day |-> 5, hour |-> 14, minute |-> 7,
          second |-> 9, microsecond |-> 500]
    ELSE [year |-> 2022, month |-> 10, day |-> 26, hour |-> 2, minute |-> 49,
          second |-> 0, microsecond |-> 0]

\* "%0<width>d" % n
RECURSIVE ZeroPad(_, _)
ZeroPad(n, width) ==
    IF width <= 1 \/ n >= 10 ^ (width - 1) THEN ToString(n)
    ELSE "0" \o ZeroPad(n, width - 1)

\* str(datetime) in the place of isoformat(): a space between date and time
isoformat_space(dt) ==
    ZeroPad(dt.year, 4) \o "-" \o ZeroPad(dt.month, 2) \o "-" \o ZeroPad(dt.day, 2)
    \o " " \o ZeroPad(dt.hour, 2) \o ":" \o ZeroPad(dt.minute, 2)
    \o ":" \o ZeroPad(dt.second, 2)
    \o (IF dt.microsecond = 0 THEN "" ELSE "." \o ZeroPad(dt.microsecond, 6))

\* datetime.isoformat(): the fraction is written only when it is not zero
isoformat(dt) ==
    ZeroPad(dt.year, 4) \o "-" \o ZeroPad(dt.month, 2) \o "-" \o ZeroPad(dt.day, 2)
    \o "T" \o ZeroPad(dt.hour, 2) \o ":" \o ZeroPad(dt.minute, 2)
    \o ":" \o ZeroPad(dt.second, 2)
    \o (IF dt.microsecond = 0 THEN "" ELSE "." \o ZeroPad(dt.microsecond, 6))

\* the text "Hello World!" that bootstrap publishes
HelloWorld == <<72, 101, 108, 108, 111, 32, 87, 111, 114, 108, 100, 33>>

\* message texts of the events of the routing specifications
Messages == {<<>>, HelloWorld}

\* NewMessageEvent(message), and the like of the other classes
NewEvent(cls, message) == [cls |-> cls, message |-> message]

Events == {NewEvent(cls, m) : cls \in EventClasses, m \in Messages}

AllEvents == {NewEvent(cls, m) : cls \in AllClasses, m \in Messages}

NoEvent == [cls |-> "none", message |-> <<>>]

\* the class a class derives from.  UrgentMessageEvent stands for a subclass
\* of NewMessageEvent that overrides nothing: an event of it is an instance
\* of NewMessageEvent, and its type() is UrgentMessageEvent
Base(cls) == IF cls = "UrgentMessageEvent" THEN "NewMessageEvent" ELSE "Event"

\* events of the subclass; no handler map names the subclass
SubclassEvents == {NewEvent("UrgentMessageEvent", m) : m \in Messages}

\* Event.serialize(): json.dumps({"message": self.message}).encode()
serialize(event) ==
    Utf8Encode(JsonDumps(<< [key |-> MessageKey, value |-> event.message] >>))

\* Event.deserialize(_b) of class cls: [error, event]
deserialize(cls, b) ==
    LET text == Utf8Decode(b) IN
    IF ~text.ok THEN [error |-> "UnicodeDecodeError", event |-> NoEvent]
    ELSE LET d == JsonLoads(text.text) IN
         IF ~d.ok THEN [error |-> "JSONDecodeError", event |-> NoEvent]
         ELSE LET m == DictGet(d.val, MessageKey) IN
              IF ~m.ok THEN [error |-> "KeyError", event |-> NoEvent]
              ELSE [error |-> "none", event |-> NewEvent(cls, m.value)]

-----------------------------------------------------------------------------
(* Handler classes.  SendNotificationOnNewMessage is the class of the         *)
(* repository; AuditHandler stands for a handler without dependencies and    *)
(* FailingHandler for one whose handle_event raises.                         *)

HandlerClasses == {"SendNotificationOnNewMessage", "AuditHandler", "FailingHandler"}

\* the services the constructor of a handler class asks for
Requires(h) == IF h = "SendNotificationOnNewMessage" THEN {"NotificationService"} ELSE {}

\* whether handle_event of the class raises
Raises(h) == h = "FailingHandler"

\* one step of a call: what was done, by or to which handler class, with which
\* service instance, on which event
Step(act, h, inst, event) == [act |-> act, h |-> h, inst |-> inst, event |-> event]

-----------------------------------------------------------------------------
(* The resolver.  Bindings: "singleton" is kink's di[T] = lambda di: ...,    *)
(* whose result is memoized; "factory" is dependency_injector's Factory,    *)
(* which builds an instance per injection; "unbound" is no binding.         *)

Bindings == {"singleton", "factory", "unbound"}

\* ResolveSingleton that memoizes nothing: the lambda runs at every resolution
ResolveSingletonNoMemo(d, n) ==
    [ok |-> TRUE, inst |-> n + 1, di |-> d, services |-> n + 1,
     trace |-> << Step("construct_service", "", n + 1, NoEvent) >>]

\* a service already memoized answers; otherwise PrintNotificationService() runs
ResolveSingleton(d, n) ==
    IF d.memo # 0
    THEN [ok |-> TRUE, inst |-> d.memo, di |-> d, services |-> n, trace |-> <<>>]
    ELSE [ok |-> TRUE, inst |-> n + 1, di |-> [d EXCEPT !.memo = n + 1], services |-> n + 1,
          trace |-> << Step("construct_service", "", n + 1, NoEvent) >>]

\* Resolve that answers None for a service without a binding
ResolveDefaulting(d, n) ==
    IF d.binding = "unbound"
    THEN [ok |-> TRUE, inst |-> 0, di |-> d, services |-> n, trace |-> <<>>]
    ELSE IF d.binding = "singleton" THEN ResolveSingleton(d, n)
    ELSE [ok |-> TRUE, inst |-> n + 1, di |-> d, services |-> n + 1,
          trace |-> << Step("construct_service", "", n + 1, NoEvent) >>]

\* resolve(NotificationService) with n instances constructed so far
Resolve(d, n) ==
    IF d.binding = "unbound"
    THEN [ok |-> FALSE, inst |-> 0, di |-> d, services |-> n, trace |-> <<>>]
    ELSE IF d.binding = "singleton" THEN ResolveSingleton(d, n)
    ELSE [ok |-> TRUE, inst |-> n + 1, di |-> d, services |-> n + 1,
          trace |-> << Step("construct_service", "", n + 1, NoEvent) >>]

\* ConstructHandler that resolves the service for every handler class, whether
\* its constructor asks for it or not
ConstructHandlerEager(h, d, n) ==
    LET r == Resolve(d, n) IN
    IF ~r.ok THEN r
    ELSE [r EXCEPT !.trace = r.trace \o << Step("construct", h, r.inst, NoEvent) >>]

\* event_handler_class(): the injected constructor
ConstructHandler(h, d, n) ==
    IF Requires(h) = {}
    THEN [ok |-> TRUE, inst |-> 0, di |-> d, services |-> n,
          trace |-> << Step("construct", h, 0, NoEvent) >>]
    ELSE LET r == Resolve(d, n) IN
         IF ~r.ok THEN r
         ELSE [r EXCEPT !.trace = r.trace \o << Step("construct", h, r.inst, NoEvent) >>]

\* event_handler_instance.handle_event(event)
HandleEvent(h, inst, event) ==
    IF Raises(h)
    THEN [error |-> "HandlerError", trace |-> << Step("handle_event", h, inst, event) >>]
    ELSE IF h = "SendNotificationOnNewMessage"
    THEN [error |-> "none",
          trace |-> << Step("handle_event", h, inst, event),
                       Step("send_notificaition", h, inst, NoEvent) >>]
    ELSE [error |-> "none", trace |-> << Step("handle_event", h, inst, event) >>]

\* RunHandlers with the exception of a handler caught, the loop going on
RECURSIVE RunHandlersCatching(_, _, _, _, _)
RunHandlersCatching(hs, event, d, n, trace) ==
    IF hs = <<>> THEN [error |-> "none", di |-> d, services |-> n, trace |-> trace]
    ELSE LET c == ConstructHandler(Head(hs), d, n) IN
         IF ~c.ok
         THEN [error |-> "ExecutionError", di |-> c.di, services |-> c.services,
               trace |-> trace \o c.trace]
         ELSE LET r == HandleEvent(Head(hs), c.inst, event) IN
              RunHandlersCatching(Tail(hs), event, c.di, c.services,
                                  trace \o c.trace \o r.trace)

\* the instances of all the classes of a list, constructed one after the other
RECURSIVE ConstructAll(_, _, _, _)
ConstructAll(hs, d, n, trace) ==
    IF hs = <<>> THEN [ok |-> TRUE, di |-> d, services |-> n, trace |-> trace, insts |-> <<>>]
    ELSE LET c == ConstructHandler(Head(hs), d, n) IN
         IF ~c.ok
         THEN [ok |-> FALSE, di |-> c.di, services |-> c.services,
               trace |-> trace \o c.trace, insts |-> <<>>]
         ELSE LET rest == ConstructAll(Tail(hs), c.di, c.services, trace \o c.trace)
              IN  [rest EXCEPT !.insts = <<c.inst>> \o @]

\* handle_event of instances already constructed, one after the other
RECURSIVE HandleAll(_, _, _, _)
HandleAll(hs, insts, event, trace) ==
    IF hs = <<>> THEN [error |-> "none", trace |-> trace]
    ELSE LET r == HandleEvent(Head(hs), Head(insts), event) IN
         IF r.error # "none" THEN [error |-> r.error, trace |-> trace \o r.trace]
         ELSE HandleAll(Tail(hs), Tail(insts), event, trace \o r.trace)

\* RunHandlers that constructs an instance of every class of the list before
\* it invokes the first handle_event
RunHandlersConstructFirst(hs, event, d, n, trace) ==
    LET c == ConstructAll(hs, d, n, trace) IN
    IF ~c.ok
    THEN [error |-> "ExecutionError", di |-> c.di, services |-> c.services, trace |-> c.trace]
    ELSE LET r == HandleAll(hs, c.insts, event, c.trace)
         IN  [error |-> r.error, di |-> c.di, services |-> c.services, trace |-> r.trace]

\* the loop over the handler classes of an event: construct, then handle, one
\* class after the other; an exception leaves the loop
RECURSIVE RunHandlers(_, _, _, _, _)
RunHandlers(hs, event, d, n, trace) ==
    IF hs = <<>> THEN [error |-> "none", di |-> d, services |-> n, trace |-> trace]
    ELSE LET c == ConstructHandler(Head(hs), d, n) IN
         IF ~c.ok
         THEN [error |-> "ExecutionError", di |-> c.di, services |-> c.services,
               trace |-> trace \o c.trace]
         ELSE LET r == HandleEvent(Head(hs), c.inst, event) IN
              IF r.error # "none"
              THEN [error |-> r.error, di |-> c.di, services |-> c.services,
                    trace |-> trace \o c.trace \o r.trace]
              ELSE RunHandlers(Tail(hs), event, c.di, c.services, trace \o c.trace \o r.trace)

-----------------------------------------------------------------------------
(* The registries *)

\* Lookup that takes an event for what it is an instance of: the entry of its
\* class or of the class that one derives from
RECURSIVE LookupByBase(_, _)
LookupByBase(map, cls) ==
    IF map = <<>> THEN [found |-> FALSE, handlers |-> <<>>]
    ELSE IF map[1].cls = cls \/ map[1].cls = Base(cls)
    THEN [found |-> TRUE, handlers |-> map[1].handlers]
    ELSE LookupByBase(Tail(map), cls)

\* type(event) in self.event_map, self.event_map[type(event)]
RECURSIVE Lookup(_, _)
Lookup(map, cls) ==
    IF map = <<>> THEN [found |-> FALSE, handlers |-> <<>>]
    ELSE IF map[1].cls = cls THEN [found |-> TRUE, handlers |-> map[1].handlers]
    ELSE Lookup(Tail(map), cls)

Keys(map) == {map[i].cls : i \in DOMAIN map}

\* EVENT_TYPES_MAP = {k.get_type(): k for k in EVENT_HANDLERS.keys()}: a later
\* key replaces an earlier one of the same type identifier
EventTypesMap(map) ==
    [t \in {get_type(c) : c \in Keys(map)} |->
        LET at == {i \in DOMAIN map : get_type(map[i].cls) = t}
            lastAt == CHOOSE i \in at : \A j \in at : j <= i
        IN  map[lastAt].cls]


\* the handler maps of at most n registered handler classes over the keys
\* (an ordered choice of event classes)
RECURSIVE MapsOver(_, _)
MapsOver(keys, n) ==
    IF keys = <<>> THEN {<<>>}
    ELSE UNION { { << [cls |-> Head(keys), handlers |-> hl] >> \o rest :
                     rest \in MapsOver(Tail(keys), n - Len(hl)) } :
                 hl \in SeqsUpTo(HandlerClasses, n) }

KeyOrders ==
    {ks \in SeqsUpTo(AllClasses, Cardinality(AllClasses)) :
        \A i, j \in DOMAIN ks : i # j => ks[i] # ks[j]}

HandlerMaps == UNION {MapsOver(ks, MaxRegistrations) : ks \in KeyOrders}

-----------------------------------------------------------------------------
(* The calls *)

NoMessage == [exchange |-> "", routing_key |-> "", headers |-> <<>>, body |-> <<>>]

\* the record of a call
Call(op, event, origin, msg, sent, trace, error) ==
    [op |-> op, event |-> event, origin |-> origin, msg |-> msg, sent |-> sent,
     trace |-> trace, error |-> error]

RECURSIVE Reverse(_)
Reverse(q) == IF q = <<>> THEN <<>> ELSE Append(Reverse(Tail(q)), Head(q))

\* RuntimeDispatch going through the handler list from its end
RuntimeDispatchReversed(map, d, n, event) ==
    LET entry == Lookup(map, event.cls) IN
    IF entry.found THEN RunHandlers(Reverse(entry.handlers), event, d, n, <<>>)
    ELSE [error |-> "none", di |-> d, services |-> n, trace |-> <<>>]

\* RuntimeDispatch without the test that the type is a key: self.event_map[type(event)]
\* raises KeyError
RuntimeDispatchUnchecked(map, d, n, event) ==
    LET entry == Lookup(map, event.cls) IN
    IF entry.found THEN RunHandlers(entry.handlers, event, d, n, <<>>)
    ELSE [error |-> "KeyError", di |-> d, services |-> n, trace |-> <<>>]

\* RuntimeEventDispatcher.dispatch(event)
RuntimeDispatch(map, d, n, event) ==
    LET entry == Lookup(map, event.cls) IN
    IF entry.found THEN RunHandlers(entry.handlers, event, d, n, <<>>)
    ELSE [error |-> "none", di |-> d, services |-> n, trace |-> <<>>]

\* ListenerHandle that leaves the loop after the first handler
ListenerHandleFirstOnly(map, d, n, event) ==
    LET entry == Lookup(map, event.cls) IN
    IF entry.found /\ entry.handlers # <<>>
    THEN RunHandlers(<<Head(entry.handlers)>>, event, d, n, <<>>)
    ELSE [error |-> "none", di |-> d, services |-> n, trace |-> <<>>]

\* EventListener.handle(event)
ListenerHandle(map, d, n, event) ==
    LET entry == Lookup(map, event.cls) IN
    IF entry.found THEN RunHandlers(entry.handlers, event, d, n, <<>>)
    ELSE [error |-> "none", di |-> d, services |-> n, trace |-> <<>>]

\* DeserializeEvent that takes a type it does not know for a NewMessageEvent
DeserializeEventDefault(types, type, b, asserts) ==
    LET cls == IF type \in DOMAIN types THEN types[type] ELSE "NewMessageEvent"
        r == deserialize(cls, b)
    IN  [error |-> r.error, event |-> r.event,
         trace |-> << Step("deserialize", cls, 0, r.event) >>]

\* EventListener.deserialize_event(type, b); asserts tells whether the
\* interpreter runs assert statements (it does not under -O)
DeserializeEvent(types, type, b, asserts) ==
    IF type \notin DOMAIN types
    THEN [error |-> IF asserts THEN "AssertionError" ELSE "AttributeError",
          event |-> NoEvent, trace |-> <<>>]
    ELSE LET r == deserialize(types[type], b)
         IN  [error |-> r.error, event |-> r.event,
              trace |-> << Step("deserialize", types[type], 0, r.event) >>]

\* PublishedMessage routed by the type of the event
PublishedMessageRouted(event) ==
    LET text == Utf8Decode(serialize(event))
    IN  [exchange |-> "", routing_key |-> get_type(event.cls),
         headers |-> [type |-> get_type(event.cls),
                      revision |-> isoformat(get_revision(event.cls))],
         body |-> Utf8Encode(text.text)]

\* the message RabbitMQEvenDispatcher.dispatch hands to basic_publish; pika
\* sends the text it is given as its UTF-8 bytes
PublishedMessage(event) ==
    LET text == Utf8Decode(serialize(event))
    IN  [exchange |-> "", routing_key |-> "test",
         headers |-> [type |-> get_type(event.cls),
                      revision |-> isoformat(get_revision(event.cls))],
         body |-> Utf8Encode(text.text)]

\* Dispatch that takes the entry of the type out of the handler map:
\* self.event_map.pop(type(event), []) in the place of the lookup
DispatchConsuming(event) ==
    LET r == RuntimeDispatch(event_map, di, services, event) IN
    /\ r.services <= MaxServices
    /\ di' = r.di
    /\ services' = r.services
    /\ last' = Call("dispatch", event, event, NoMessage, <<>>, r.trace, r.error)
    /\ event_map' = SelectSeq(event_map, LAMBDA x : x.cls # event.cls)
    /\ UNCHANGED <<event_type_map, startup, queue, connection, publishes, frame>>

\* RuntimeEventDispatcher.dispatch(event), called by the program
Dispatch(event) ==
    LET r == RuntimeDispatch(event_map, di, services, event) IN
    /\ r.services <= MaxServices
    /\ di' = r.di
    /\ services' = r.services
    /\ last' = Call("dispatch", event, event, NoMessage, <<>>, r.trace, r.error)
    /\ UNCHANGED <<event_map, event_type_map, startup, queue, connection, publishes, frame>>

\* Publish that opens a connection of its own at every call, in the place of
\* the one it was given
PublishReconnecting(event, failure) ==
    LET m == PublishedMessage(event)
        ser == Step("serialize", event.cls, 0, event)
        attempt == << Step("channel", "", 0, NoEvent), Step("basic_publish", "", 0, NoEvent) >>
        fresh == [id |-> connection.opened + 1, opened |-> connection.opened + 1,
                  channels |-> 0]
    IN
    /\ Len(queue) < MaxQueue
    /\ publishes < MaxPublishes
    /\ publishes' = publishes + 1
    /\ \/ /\ failure = "channel"
          /\ last' = Call("publish", event, event, NoMessage, <<>>, <<ser>>, "AMQPError")
          /\ queue' = queue
          /\ connection' = fresh
       \/ /\ failure = "basic_publish"
          /\ last' = Call("publish", event, event, NoMessage, <<m>>, <<ser>> \o attempt,
                          "AMQPError")
          /\ queue' = queue
          /\ connection' = [fresh EXCEPT !.channels = 1]
       \/ /\ failure = "none"
          /\ last' = Call("publish", event, event, NoMessage, <<m>>, <<ser>> \o attempt, "none")
          /\ queue' = Append(queue, [msg |-> m, origin |-> event])
          /\ connection' = [fresh EXCEPT !.channels = 1]
    /\ UNCHANGED <<event_map, event_type_map, startup, di, services, frame>>

\* Publish that catches the failure of basic_publish and sends the message
\* once more, on a new channel, telling its caller nothing
PublishRetrying(event, failure) ==
    LET m == PublishedMessage(event)
        ser == Step("serialize", event.cls, 0, event)
        attempt == << Step("channel", "", 0, NoEvent), Step("basic_publish", "", 0, NoEvent) >>
    IN
    /\ Len(queue) < MaxQueue
    /\ publishes < MaxPublishes
    /\ publishes' = publishes + 1
    /\ \/ /\ failure = "channel"
          /\ last' = Call("publish", event, event, NoMessage, <<>>, <<ser>>, "AMQPError")
          /\ queue' = queue
          /\ connection' = connection
       \/ /\ failure = "basic_publish"
          /\ last' = Call("publish", event, event, NoMessage, <<m, m>>,
                          <<ser>> \o attempt \o attempt, "none")
          /\ queue' = Append(queue, [msg |-> m, origin |-> event])
          /\ connection' = [connection EXCEPT !.channels = @ + 2]
       \/ /\ failure = "none"
          /\ last' = Call("publish", event, event, NoMessage, <<m>>, <<ser>> \o attempt, "none")
          /\ queue' = Append(queue, [msg |-> m, origin |-> event])
          /\ connection' = [connection EXCEPT !.channels = @ + 1]
    /\ UNCHANGED <<event_map, event_type_map, startup, di, services, frame>>

\* RabbitMQEvenDispatcher.dispatch(event); failure is where the transport fails
Publish(event, failure) ==
    LET m == PublishedMessage(event)
        ser == Step("serialize", event.cls, 0, event)
    IN
    /\ Len(queue) < MaxQueue
    /\ publishes < MaxPublishes
    /\ publishes' = publishes + 1
    /\ \/ /\ failure = "channel"
          /\ last' = Call("publish", event, event, NoMessage, <<>>, <<ser>>, "AMQPError")
          /\ queue' = queue
          /\ connection' = connection
       \/ /\ failure = "basic_publish"
          /\ last' = Call("publish", event, event, NoMessage, <<m>>,
                          <<ser, Step("channel", "", 0, NoEvent),
                            Step("basic_publish", "", 0, NoEvent)>>, "AMQPError")
          /\ queue' = queue
          /\ connection' = [connection EXCEPT !.channels = @ + 1]
       \/ /\ failure = "none"
          /\ last' = Call("publish", event, event, NoMessage, <<m>>,
                          <<ser, Step("channel", "", 0, NoEvent),
                            Step("basic_publish", "", 0, NoEvent)>>, "none")
          /\ queue' = Append(queue, [msg |-> m, origin |-> event])
          /\ connection' = [connection EXCEPT !.channels = @ + 1]
    /\ UNCHANGED <<event_map, event_type_map, startup, di, services, frame>>

\* the listener is given the message at the head of the queue:
\* deserialize_event(type header, body), then handle(event)
OnMessage(asserts) ==
    /\ queue # <<>>
    /\ \E m \in {Head(queue).msg} :
       \E e \in {DeserializeEvent(event_type_map, m.headers.type, m.body, asserts)} :
          IF e.error # "none"
          THEN /\ last' = Call("on_message", e.event, Head(queue).origin, m, <<>>,
                               e.trace, e.error)
               /\ UNCHANGED <<di, services>>
          ELSE \E r \in {ListenerHandle(event_map, di, services, e.event)} :
               /\ r.services <= MaxServices
               /\ di' = r.di
               /\ services' = r.services
               /\ last' = Call("on_message", e.event, Head(queue).origin, m, <<>>,
                               e.trace \o r.trace, r.error)
    /\ queue' = Tail(queue)
    /\ UNCHANGED <<event_map, event_type_map, startup, connection, publishes, frame>>

NoCall == Call("none", NoEvent, NoEvent, NoMessage, <<>>, <<>>, "none")

\* rmq_con = BlockingConnection(...) of bootstrap, which the publisher is given:
\* the connection the publisher holds, the connections the process has opened,
\* the channels opened on the connection
RmqCon == [id |-> 1, opened |-> 1, channels |-> 0]

\* no dispatch call is running
NoFrame == [pc |-> "idle", event |-> NoEvent, hs |-> <<>>, inst |-> 0,
            trace |-> <<>>, error |-> "none"]

\* EVENT_HANDLERS of the repository
EVENT_HANDLERS == << [cls |-> "NewMessageEvent", handlers |-> <<"SendNotificationOnNewMessage">>] >>

\* the handler maps of the whole system: the repository's, the empty one, one
\* of two event types (the second with a failing handler first), one with a
\* failing handler between two others, and one with a key bound to no handler
Registries ==
    { EVENT_HANDLERS,
      <<>>,
      << [cls |-> "NewMessageEvent", handlers |-> <<"AuditHandler", "SendNotificationOnNewMessage">>],
         [cls |-> "OtherEvent", handlers |-> <<"FailingHandler", "SendNotificationOnNewMessage">>] >>,
      << [cls |-> "NewMessageEvent",
          handlers |-> <<"SendNotificationOnNewMessage", "FailingHandler", "AuditHandler">>] >>,
      << [cls |-> "OtherEvent", handlers |-> <<>>] >> }

\* the state after initialization over the handler maps ms
InitOver(ms) ==
    /\ event_map \in ms
    /\ event_type_map = EventTypesMap(event_map)
    /\ startup = "none"
    /\ di \in {[binding |-> b, memo |-> 0] : b \in Bindings}
    /\ services = 0
    /\ queue = <<>>
    /\ last = NoCall
    /\ connection = RmqCon
    /\ publishes = 0
    /\ frame = NoFrame

Init == InitOver(Registries)

Next ==
    \/ \E e \in Events : Dispatch(e)
    \/ \E e \in Events, f \in {"none", "channel", "basic_publish"} : Publish(e, f)
    \/ \E a \in BOOLEAN : OnMessage(a)

\* the whole system: dispatcher, publisher and listener
Spec == Init /\ [][Next]_vars

InitDispatch == InitOver(HandlerMaps)

NextDispatch == \E e \in AllEvents \cup SubclassEvents : Dispatch(e)

\* the in-process dispatcher alone, over every handler map within the bounds,
\* those of two classes of one type identifier among them
SpecDispatch == InitDispatch /\ [][NextDispatch]_vars


-----------------------------------------------------------------------------
(* The in-process dispatcher statement by statement: the call, each          *)
(* construction, each handle_event and the return are steps of their own.   *)

\* dispatch(event) is called: type(event) in self.event_map, and the list of
\* the type is what the for loop goes through
DispatchCall(event) ==
    /\ frame.pc = "idle"
    /\ RuntimeDispatch(event_map, di, services, event).services <= MaxServices
    /\ frame' = [pc |-> "loop", event |-> event, hs |-> Lookup(event_map, event.cls).handlers,
                 inst |-> 0, trace |-> <<>>, error |-> "none"]
    /\ UNCHANGED <<event_map, event_type_map, startup, di, services, queue, last,
                   connection, publishes>>

\* event_handler_instance = event_handler_class()
DispatchConstruct ==
    /\ frame.pc = "loop" /\ frame.hs # <<>>
    /\ \E c \in {ConstructHandler(Head(frame.hs), di, services)} :
          /\ di' = c.di
          /\ services' = c.services
          /\ frame' = IF c.ok
                      THEN [frame EXCEPT !.pc = "constructed", !.inst = c.inst,
                                         !.trace = @ \o c.trace]
                      ELSE [frame EXCEPT !.pc = "raising", !.error = "ExecutionError",
                                         !.trace = @ \o c.trace]
    /\ UNCHANGED <<event_map, event_type_map, startup, queue, last, connection, publishes>>

\* event_handler_instance.handle_event(event)
DispatchHandle ==
    /\ frame.pc = "constructed"
    /\ \E r \in {HandleEvent(Head(frame.hs), frame.inst, frame.event)} :
          frame' = IF r.error # "none"
                   THEN [frame EXCEPT !.pc = "raising", !.error = r.error,
                                      !.trace = @ \o r.trace]
                   ELSE [frame EXCEPT !.pc = "loop", !.hs = Tail(@), !.inst = 0,
                                      !.trace = @ \o r.trace]
    /\ UNCHANGED <<event_map, event_type_map, startup, di, services, queue, last,
                   connection, publishes>>

\* DispatchReturn that leaves the call after the first handler has run
DispatchReturnEarly ==
    /\ \/ frame.pc = "loop" /\ frame.trace # <<>>
       \/ frame.pc = "loop" /\ frame.hs = <<>>
       \/ frame.pc = "raising"
    /\ last' = Call("dispatch", frame.event, frame.event, NoMessage, <<>>,
                    frame.trace, frame.error)
    /\ frame' = NoFrame
    /\ UNCHANGED <<event_map, event_type_map, startup, di, services, queue,
                   connection, publishes>>

\* the for loop is exhausted and dispatch returns, or the exception of a
\* construction or of a handle_event leaves dispatch
DispatchReturn ==
    /\ \/ frame.pc = "loop" /\ frame.hs = <<>>
       \/ frame.pc = "raising"
    /\ last' = Call("dispatch", frame.event, frame.event, NoMessage, <<>>,
                    frame.trace, frame.error)
    /\ frame' = NoFrame
    /\ UNCHANGED <<event_map, event_type_map, startup, di, services, queue,
                   connection, publishes>>

NextSteps ==
    \/ \E e \in Events : DispatchCall(e)
    \/ DispatchConstruct
    \/ DispatchHandle
    \/ DispatchReturn

\* a call that has begun goes on: the interpreter runs the next statement, and
\* every construction and every handle_event comes to its end
SpecSteps ==
    /\ Init
    /\ [][NextSteps]_vars
    /\ WF_vars(DispatchConstruct)
    /\ WF_vars(DispatchHandle)
    /\ WF_vars(DispatchReturn)

-----------------------------------------------------------------------------
(* The codec alone: an event is serialized, and the bytes are deserialized *)

CodecEvents == {NewEvent("NewMessageEvent", m) : m \in SeqsUpTo(CodecAlphabet, MaxCodecLen)}

InitCodec ==
    /\ event_map = EVENT_HANDLERS
    /\ event_type_map = EventTypesMap(event_map)
    /\ startup = "none"
    /\ di = [binding |-> "singleton", memo |-> 0]
    /\ services = 0
    /\ queue = <<>>
    /\ \E e \in CodecEvents : last = Call("new", e, e, NoMessage, <<>>, <<>>, "none")
    /\ connection = RmqCon
    /\ publishes = 0
    /\ frame = NoFrame

\* event.serialize()
Serialize ==
    /\ last.op = "new"
    /\ last' = Call("serialize", last.event, last.origin,
                    [NoMessage EXCEPT !.body = serialize(last.event)], <<>>, <<>>, "none")
    /\ UNCHANGED <<event_map, event_type_map, startup, di, services, queue,
                   connection, publishes, frame>>

\* NewMessageEvent.deserialize(b)
Deserialize ==
    /\ last.op = "serialize"
    /\ LET r == deserialize("NewMessageEvent", last.msg.body)
       IN  last' = Call("deserialize", r.event, last.origin, last.msg, <<>>, <<>>, r.error)
    /\ UNCHANGED <<event_map, event_type_map, startup, di, services, queue,
                   connection, publishes, frame>>

NextCodec == Serialize \/ Deserialize

SpecCodec == InitCodec /\ [][NextCodec]_vars


-----------------------------------------------------------------------------
(* Reading the record of a call *)

\* the steps of a trace that are act, in order
RECURSIVE StepsOf(_, _)
StepsOf(trace, act) ==
    IF trace = <<>> THEN <<>>
    ELSE (IF Head(trace).act = act THEN <<Head(trace)>> ELSE <<>>) \o StepsOf(Tail(trace), act)

\* the handle_event calls of a trace: which class, on which event
Invocations(trace) ==
    LET hs == StepsOf(trace, "handle_event")
    IN  [i \in DOMAIN hs |-> <<hs[i].h, hs[i].event>>]

\* the handler classes a trace constructed, in order
Constructions(trace) ==
    LET cs == StepsOf(trace, "construct")
    IN  [i \in DOMAIN cs |-> cs[i].h]

\* the handler classes the handler map binds to the class, <<>> when it binds none
BoundTo(map, cls) ==
    IF \E i \in DOMAIN map : map[i].cls = cls
    THEN map[CHOOSE i \in DOMAIN map : map[i].cls = cls].handlers
    ELSE <<>>

\* the handlers invoked on the event, one after the other
OnEvent(hs, event) == [i \in DOMAIN hs |-> <<hs[i], event>>]

DuplicateTypes(map) ==
    \E i, j \in DOMAIN map : i # j /\ get_type(map[i].cls) = get_type(map[j].cls)

-----------------------------------------------------------------------------
(* C1: a dispatch that no handler fails invokes handle_event(e) on exactly   *)
(* the handler classes the map binds to the type of e, in the order of the  *)
(* list, each once, and on no handler bound to another type.                 *)
C1_DispatchCompleteness ==
    (last.op = "dispatch" /\ last.error = "none")
        => Invocations(last.trace) = OnEvent(BoundTo(event_map, last.event.cls), last.event)

C1_Witness ==
    /\ last.op = "dispatch" /\ last.error = "none"
    /\ Len(event_map) = 2
    /\ Invocations(last.trace)
         = << <<"SendNotificationOnNewMessage", last.event>>, <<"AuditHandler", last.event>> >>

(* C2: dispatch of an event whose type the map does not bind, or binds to an *)
(* empty list, returns normally and changes nothing: no handler and no       *)
(* service is constructed, no handle_event is invoked.                       *)
C2_NoHandlerNoOp ==
    [][ (last'.op = "dispatch" /\ BoundTo(event_map, last'.event.cls) = <<>>)
          => /\ last'.error = "none"
             /\ last'.trace = <<>>
             /\ UNCHANGED <<event_map, event_type_map, startup, di, services, queue>> ]_vars

C2_Witness ==
    /\ last.op = "dispatch"
    /\ \E i \in DOMAIN event_map :
          event_map[i].cls = last.event.cls /\ event_map[i].handlers = <<>>
    /\ last.trace = <<>> /\ last.error = "none"

(* C3: when the i-th handler of the list fails, the failure reaches the      *)
(* caller, the handlers before it have each been invoked once, and none     *)
(* after it is constructed or invoked.                                       *)
C3_StopOnFirstFailure ==
    LET hs == BoundTo(event_map, last.event.cls) IN
    (last.op \in {"dispatch", "on_message"} /\ last.event # NoEvent)
        => /\ (\A i \in DOMAIN hs : ~Raises(hs[i])) => last.error # "HandlerError"
           /\ (last.error = "none") => \A i \in DOMAIN hs : ~Raises(hs[i])
           /\ (last.error = "HandlerError") =>
                 \E i \in DOMAIN hs :
                    /\ Raises(hs[i])
                    /\ \A j \in 1..(i - 1) : ~Raises(hs[j])
                    /\ Invocations(last.trace) = OnEvent(SubSeq(hs, 1, i), last.event)
                    /\ Constructions(last.trace) = SubSeq(hs, 1, i)

C3_Witness ==
    /\ last.op = "dispatch" /\ last.error = "HandlerError"
    /\ BoundTo(event_map, last.event.cls) = <<"FailingHandler", "AuditHandler">>
    /\ Invocations(last.trace) = << <<"FailingHandler", last.event>> >>
    /\ Constructions(last.trace) = <<"FailingHandler">>

C6_AsStated ==
    (last.op = "publish" /\ last.event.cls = "NewMessageEvent" /\ last.sent # <<>>)
        => /\ last.sent[1].headers = [type |-> "demo/new-message",
                                      revision |-> "2022-10-26T02:49:00"]
           /\ last.sent[1].body = serialize(last.event)

(* C6, amended: the headers of a published NewMessageEvent are exactly type  *)
(* "some-proj/some-domain/some-event" and revision "2022-10-26T02:49:00",   *)
(* and the body is serialize(event).                                         *)
C6_NewMessageHeaders ==
    (last.op = "publish" /\ last.event.cls = "NewMessageEvent" /\ last.sent # <<>>)
        => /\ last.sent[1].headers = [type |-> "some-proj/some-domain/some-event",
                                      revision |-> "2022-10-26T02:49:00"]
           /\ last.sent[1].body = serialize(last.event)

C6_Witness ==
    /\ last.op = "publish" /\ last.error = "none"
    /\ last.event = NewEvent("NewMessageEvent", HelloWorld)
    /\ queue # <<>> /\ queue[Len(queue)].origin = last.event

C9_RoundTrip ==
    (last.op = "deserialize")
        => /\ last.error = "none"
           /\ last.event.cls = last.origin.cls
           /\ last.event.message = last.origin.message

C9_Witness ==
    /\ last.op = "deserialize"
    /\ last.origin.message = <<34, 128512, 92>>
    /\ last.event.message = <<34, 128512, 92>>

(* C10: a handler map of two event classes that return the same type         *)
(* identifier does not yield a type registry: binding the second fails with *)
(* DuplicateTypeError (and the first binding is never replaced).            *)
C10_DuplicateTypeRejected ==
    DuplicateTypes(event_map) => startup = "DuplicateTypeError"

(* C11: no call changes a registry: after every dispatch, publish and        *)
(* listener call, the failing ones included, the handler registry and the   *)
(* event type registry are what initialization left.                         *)
C11_RegistriesImmutable ==
    [][ event_map' = event_map /\ event_type_map' = event_type_map ]_vars

C11_Witness ==
    /\ last.op = "on_message" /\ last.error = "HandlerError"
    /\ services > 0
    /\ publishes = MaxPublishes
    /\ event_type_map = EventTypesMap(event_map)

(* C12: a publish call hands the message to basic_publish at most once,      *)
(* whether or not the transport fails; a call in which the transport fails  *)
(* ends with the exception of the transport (nothing catches it) and leaves *)
(* no message on the queue, so a call ends normally exactly when it has     *)
(* queued its message.                                                      *)
C12_NoRetryFailureSurfaces ==
    [][ (publishes' # publishes)
          => /\ last'.op = "publish"
             /\ Len(StepsOf(last'.trace, "basic_publish")) <= 1
             /\ Len(last'.sent) <= 1
             /\ (last'.error = "none")
                  <=> (queue' = Append(queue, [msg |-> PublishedMessage(last'.event),
                                               origin |-> last'.event]))
             /\ (last'.error # "none") => (last'.error = "AMQPError" /\ queue' = queue) ]_vars

C12_Witness ==
    /\ last.op = "publish" /\ last.error = "AMQPError"
    /\ Len(StepsOf(last.trace, "basic_publish")) = 1
    /\ last.sent = << PublishedMessage(NewEvent("NewMessageEvent", HelloWorld)) >>
    /\ queue = <<>>

(* C13: with no binding for the service, a dispatch that comes to a handler  *)
(* class requiring it (the classes before it requiring nothing and raising  *)
(* nothing) ends with the error of the construction: that class is not       *)
(* constructed, its handle_event and every later class are left out, the    *)
(* classes before it have run, and no service exists.                        *)
C13_UnboundServiceFails ==
    (last.op = "dispatch" /\ di.binding = "unbound")
        => LET hs == BoundTo(event_map, last.event.cls) IN
           \A i \in DOMAIN hs :
              ( /\ Requires(hs[i]) # {}
                /\ \A j \in 1..(i - 1) : Requires(hs[j]) = {} /\ ~Raises(hs[j]) )
                => /\ last.error = "ExecutionError"
                   /\ Constructions(last.trace) = SubSeq(hs, 1, i - 1)
                   /\ Invocations(last.trace) = OnEvent(SubSeq(hs, 1, i - 1), last.event)
                   /\ services = 0

C13_Witness ==
    /\ last.op = "dispatch" /\ di.binding = "unbound"
    /\ BoundTo(event_map, last.event.cls) = <<"AuditHandler", "SendNotificationOnNewMessage">>
    /\ last.error = "ExecutionError"
    /\ Invocations(last.trace) = << <<"AuditHandler", last.event>> >>

(* C14: dispatch is synchronous and terminates.  When it returns normally    *)
(* every handler of the list has completed handle_event, in order; when it  *)
(* raises, the handlers that ran are the first ones of the list and what    *)
(* raised is the last thing the call did; while no call is running nothing  *)
(* is constructed or invoked and the record of the returned call stays as   *)
(* it is; and every call that has begun returns or raises.                   *)
C14_SynchronousDispatch ==
    /\ [][ (frame.pc # "idle" /\ frame'.pc = "idle")
             => LET hs == BoundTo(event_map, frame.event.cls)
                    done == Invocations(last'.trace)
                IN  /\ last'.op = "dispatch" /\ last'.event = frame.event
                    /\ last'.trace = frame.trace
                    /\ (last'.error = "none") => (done = OnEvent(hs, frame.event))
                    /\ (last'.error # "none")
                         => /\ Len(done) <= Len(hs)
                            /\ done = OnEvent(SubSeq(hs, 1, Len(done)), frame.event)
                            /\ \/ last'.error = "HandlerError" /\ Raises(hs[Len(done)])
                               \/ /\ last'.error = "ExecutionError"
                                  /\ Len(done) < Len(hs)
                                  /\ Requires(hs[Len(done) + 1]) # {} ]_vars
    /\ [][ (frame.pc = "idle")
             => /\ di' = di /\ services' = services /\ last' = last
                /\ frame'.trace = <<>> ]_vars
    /\ ((frame.pc # "idle") ~> (frame.pc = "idle"))

C14_Witness ==
    /\ frame.pc = "idle"
    /\ last.op = "dispatch" /\ last.error = "none"
    /\ Invocations(last.trace)
         = << <<"AuditHandler", last.event>>, <<"SendNotificationOnNewMessage", last.event>> >>
    /\ services = 2

(* C15: the service is constructed lazily.  Initialization, which binds it, *)
(* constructs none and memoizes none; the number of services grows only in  *)
(* a step that runs handlers (a dispatch, or the handle of the listener),   *)
(* and there each service is constructed for the handler class constructed  *)
(* right after it, a class whose constructor requires the service; a        *)
(* publish constructs nothing and leaves the resolver as it is.             *)
C15_LazyService ==
    /\ (services = 0 /\ di.memo = 0)
    /\ [][ (services' # services)
             => /\ last'.op \in {"dispatch", "on_message"}
                /\ services' > services
                /\ \A k \in DOMAIN last'.trace :
                      (last'.trace[k].act = "construct_service")
                        => /\ k < Len(last'.trace)
                           /\ last'.trace[k + 1].act = "construct"
                           /\ Requires(last'.trace[k + 1].h) # {}
                           /\ last'.trace[k + 1].inst = last'.trace[k].inst ]_vars
    /\ [][ (publishes' # publishes) => (services' = services /\ di' = di) ]_vars

C15_Witness ==
    /\ last.op = "dispatch" /\ publishes > 0
    /\ Len(last.trace) >= 4
    /\ last.trace[1].act = "construct" /\ last.trace[1].h = "AuditHandler"
    /\ last.trace[3].act = "construct_service"
    /\ last.trace[4].h = "SendNotificationOnNewMessage"
    /\ services = 1 /\ di.memo = 1

\* the constructions and the handle_event calls of a trace, in their order
Lifecycle(trace) == SelectSeq(trace, LAMBDA x : x.act \in {"construct", "handle_event"})

(* C16: handler instances are transient and built one at a time.  In every  *)
(* call that runs handlers (a dispatch or the handle of the listener, the   *)
(* first call or a later one), the constructions and the handle_event calls *)
(* alternate: the instance of the i-th class of the list is constructed,    *)
(* then its handle_event runs, then the instance of the next class is       *)
(* constructed; a call that ends normally has constructed one instance of   *)
(* every class of the list, and a call that the construction of class i+1   *)
(* ends has run handle_event of the classes 1..i before.                     *)
C16_TransientHandlers ==
    (last.op \in {"dispatch", "on_message"} /\ last.event.cls # "none")
        => LET hs == BoundTo(event_map, last.event.cls)
               lc == Lifecycle(last.trace)
           IN  /\ Len(lc) <= 2 * Len(hs)
               /\ \A k \in DOMAIN lc :
                     /\ lc[k].h = hs[(k + 1) \div 2]
                     /\ lc[k].act = (IF k % 2 = 1 THEN "construct" ELSE "handle_event")
               /\ (last.error = "none") => (Len(lc) = 2 * Len(hs))
               /\ (last.error = "ExecutionError")
                    => /\ Len(lc) % 2 = 0 /\ Len(lc) < 2 * Len(hs)
                       /\ Requires(hs[Len(lc) \div 2 + 1]) # {}
                       /\ Invocations(last.trace)
                            = OnEvent(SubSeq(hs, 1, Len(lc) \div 2), last.event)

C16_Witness ==
    /\ last.op = "on_message" /\ last.error = "ExecutionError"
    /\ services = 0
    /\ Constructions(last.trace) = <<"AuditHandler">>
    /\ Invocations(last.trace) = << <<"AuditHandler", last.event>> >>

\* the event classes the event type registry binds
TypeRegistryClasses(types) == {types[k] : k \in DOMAIN types}

(* C17: the event classes the event type registry binds are the keys of the *)
(* handler registry, and the registry binds every type identifier k to a    *)
(* class whose get_type() is k (so what the listener deserializes is of a   *)
(* class that is a key of the handler registry).                             *)
C17_RegistriesAgree ==
    /\ TypeRegistryClasses(event_type_map) = Keys(event_map)
    /\ \A k \in DOMAIN event_type_map : get_type(event_type_map[k]) = k

(* C18 as stated: the publisher holds the one connection that was opened,   *)
(* and the channels opened on it are as many as the publish calls made so   *)
(* far.                                                                      *)
C18_AsStated ==
    /\ connection.id = RmqCon.id /\ connection.opened = 1
    /\ connection.channels = publishes

(* C18: every publish call uses the connection the publisher was given: no  *)
(* step opens a connection or replaces the one held.  Every call asks it    *)
(* for a channel once: a call opens one channel, or none when channel()     *)
(* itself fails, and then the call ends with the error of the transport.   *)
(* So the channels opened are the publish calls in which channel() did not  *)
(* fail, never more than the calls made; nothing but a publish opens one.   *)
C18_OneConnectionChannelPerCall ==
    /\ (connection = RmqCon /\ publishes = 0)
    /\ [](connection.channels <= publishes)
    /\ [][ connection'.id = connection.id /\ connection'.opened = connection.opened ]_vars
    /\ [][ (publishes' = publishes) => (connection' = connection) ]_vars
    /\ [][ (publishes' # publishes)
             => LET opened == Len(StepsOf(last'.trace, "channel")) IN
                /\ publishes' = publishes + 1
                /\ last'.op = "publish"
                /\ opened <= 1
                /\ connection'.channels = connection.channels + opened
                /\ (opened = 0) => (last'.error = "AMQPError" /\ last'.sent = <<>>) ]_vars

C18_Witness ==
    /\ publishes = 2
    /\ connection.channels = 1
    /\ last.op = "publish" /\ last.error = "AMQPError"
    /\ StepsOf(last.trace, "channel") = <<>>

(* C19: the handlers of an event are looked up by its exact class.  A        *)
(* dispatch of an event whose class is no key of the handler map invokes    *)
(* and constructs nothing and returns normally, also when the class it      *)
(* derives from is a key; handle of the listener, given that event, does    *)
(* the same.                                                                 *)
C19_ExactTypeLookup ==
    (last.op = "dispatch" /\ last.event.cls \notin Keys(event_map))
        => /\ last.trace = <<>>
           /\ last.error = "none"
           /\ ListenerHandle(event_map, di, services, last.event)
                = [error |-> "none", di |-> di, services |-> services, trace |-> <<>>]

C19_Witness ==
    /\ last.op = "dispatch" /\ last.error = "none"
    /\ last.event.cls = "UrgentMessageEvent"
    /\ Base(last.event.cls) \in Keys(event_map)
    /\ BoundTo(event_map, Base(last.event.cls)) = <<"AuditHandler", "FailingHandler">>
    /\ last.trace = <<>>

=============================================================================
